---- MODULE Spec2Model ----
(***************************************************************************)
(* The incremental populate pipeline of theframe (src/tools.py populate,   *)
(* src/main.py command "populate"), as a state machine over the JSON files *)
(* the commands read and write: the main file, the pending file, the       *)
(* completed-increment file and the paintings list.                        *)
(*                                                                         *)
(* A JSON mapping is a sequence of [k, v] pairs with pairwise distinct     *)
(* keys: Python dicts and json.dump keep insertion order, and populate     *)
(* builds a list out of completed.values().                                *)
(***************************************************************************)
EXTENDS Integers, Sequences, FiniteSets, TLC

\* ------------------------------------------------------------------ bounds

\* Largest sequence number a run of the model may assign.
MaxNum == 3
\* Longest paintings list of an initial state.
MaxPaintings == 3

\* ------------------------------------------------------- program constants

\* str(number).zfill(4)
ZfillWidth == 4
\* p[0:2] / p[2:]
BatchSize == 2

\* ------------------------------------------------------------------ values

\* (author, title) pairs the enrichment model can answer with.
Works == {"Ab", "ab", "cd"}

\* slugify: lowercases, so two different works can share a slug.
slugify(s) == IF s = "Ab" THEN "ab" ELSE s

\* The value of v.get("number") when it is absent or not an int.
NoNumber == 0

\* None, for a filename, a bg_url or a key.
NoFile == [kind |-> "none", num |-> <<>>, slug |-> ""]

RECURSIVE Digits(_)
\* str(n) for n >= 0, as a sequence of decimal digits.
Digits(n) == IF n < 10 THEN <<n>> ELSE Digits(n \div 10) \o <<n % 10>>

\* One zero is put in front of a string shorter than w.
zfill_one(s, w) == IF Len(s) >= w THEN s ELSE <<0>> \o s

RECURSIVE zfill(_, _)
\* str.zfill: pad with zeros on the left up to width w, never truncate.
zfill(s, w) == IF Len(s) >= w THEN s ELSE zfill(<<0>> \o s, w)

\* f"{str(number).zfill(4)}-{slugify(author)}-{slugify(title)}.jpg"
Filename(number, work) ==
    [kind |-> "file", num |-> zfill(Digits(number), ZfillWidth), slug |-> slugify(work)]

\* f"new-{slugify(title)}"
NewKey(title) == [kind |-> "new", num |-> <<>>, slug |-> slugify(title)]

\* One record of a collection.  work: the (author, title) of the record;
\* bg_url is {base_url}/{filename}, written as the filename it was built from.
Entry(work, number, filename, bg_url, image_url) ==
    [work |-> work, number |-> number, filename |-> filename,
     bg_url |-> bg_url, image_url |-> image_url]

\* {"title": title}
StubEntry(title) == Entry(title, NoNumber, NoFile, NoFile, FALSE)

NoEntry == Entry("", NoNumber, NoFile, NoFile, FALSE)

\* An element of the pending list: a {name} stub, or any other dict (no "name").
Stub(name) == [isStub |-> TRUE, name |-> name, ent |-> NoEntry]
Other(e) == [isStub |-> FALSE, name |-> "", ent |-> e]

\* painting.get("name", "Unknown")
ItemTitle(item) == IF item.isStub THEN item.name ELSE "Unknown"

\* ------------------------------------------------------------ dict helpers

Keys(d) == {d[i].k : i \in 1..Len(d)}
Values(d) == [i \in 1..Len(d) |-> d[i].v]
HasKey(d, key) == \E i \in 1..Len(d) : d[i].k = key
Lookup(d, key) == d[CHOOSE i \in 1..Len(d) : d[i].k = key].v

\* d[key] = v
Put(d, key, v) ==
    IF HasKey(d, key)
    THEN [i \in 1..Len(d) |-> IF d[i].k = key THEN [k |-> key, v |-> v] ELSE d[i]]
    ELSE Append(d, [k |-> key, v |-> v])

\* del d[key]
Remove(d, key) == SelectSeq(d, LAMBDA x : x.k # key)

RECURSIVE DictUpdate(_, _)
\* {**d, **n}
DictUpdate(d, n) ==
    IF n = <<>> THEN d ELSE DictUpdate(Put(d, Head(n).k, Head(n).v), Tail(n))

\* A file: absent, present but not parseable JSON, or present with its data.
Absent == [st |-> "absent", data |-> <<>>]
Malformed == [st |-> "malformed", data |-> <<>>]
File(data) == [st |-> "ok", data |-> data]

Max(S) == CHOOSE x \in S : \A y \in S : y <= x

\* max(S, default=0)
MaxOrZero(S) == IF S = {} THEN 0 ELSE Max(S)

\* ------------------------------------------------- populate (src/tools.py)

\* completed, after "Load existing completed data": an absent or malformed
\* main file leaves the empty dict.
LoadMain(mainF) == IF mainF.st = "ok" THEN mainF.data ELSE <<>>

\* n, the parsed completed-increment file, when json.load returned.
IncParsed(incF) == incF.st = "ok"

\* if n: updated = True
IncNonEmpty(incF) == IncParsed(incF) /\ incF.data # <<>>

\* The test without the bg_url: main wins whenever it has the key.
MainWinsAnyEntry(completed, key) == HasKey(completed, key)

\* completed.get(key, {}).get("bg_url"): main has the key and its bg_url is set.
MainWins(completed, key) ==
    HasKey(completed, key) /\ Lookup(completed, key).bg_url # NoFile

\* n, after the loop that deletes the keys main wins.
FoldKeep(completed, n) == SelectSeq(n, LAMBDA x : ~MainWins(completed, x.k))

\* completed = n: the merge with completed left out.
FoldDropMerge(completed, n) == FoldKeep(completed, n)

\* completed = {**completed, **n}
Fold(completed, n) == DictUpdate(completed, FoldKeep(completed, n))

\* completed after the "Load incremental completed data" block.
LoadAndFold(mainF, incF) ==
    IF IncParsed(incF) THEN Fold(LoadMain(mainF), incF.data) ELSE LoadMain(mainF)

RECURSIVE IngestStubsFirstWins(_, _)
\* completed.setdefault(key, {"title": title}): a key already there is kept.
IngestStubsFirstWins(completed, paintings) ==
    IF paintings = <<>> THEN completed
    ELSE LET title == ItemTitle(Head(paintings))
         IN IngestStubsFirstWins(IF HasKey(completed, NewKey(title)) THEN completed
                                 ELSE Put(completed, NewKey(title), StubEntry(title)),
                                 Tail(paintings))

RECURSIVE IngestStubs(_, _)
\* for painting in paintings: completed[f"new-{slugify(title)}"] = {"title": title}
IngestStubs(completed, paintings) ==
    IF paintings = <<>> THEN completed
    ELSE LET title == ItemTitle(Head(paintings))
         IN IngestStubs(Put(completed, NewKey(title), StubEntry(title)), Tail(paintings))

\* painting.get("bg_url") is None and painting.get("filename")
\* if painting.get("bg_url") is None: the filename is not looked at.
BackfillCandidateAnyFilename(e) == e.bg_url = NoFile

BackfillCandidate(e) == e.bg_url = NoFile /\ e.filename # NoFile

\* The keys whose entry the backfill loop probes.
BackfillKeys(completed) ==
    {completed[i].k : i \in {j \in 1..Len(completed) : BackfillCandidate(completed[j].v)}}

\* One pass of the backfill loop over an entry; found: url_exists returned True.
BackfillEntry(e, found) ==
    [e EXCEPT !.image_url = FALSE,
              !.bg_url = IF BackfillCandidate(e) /\ found THEN e.filename ELSE e.bg_url]

\* completed after the backfill loop; found is the set of keys whose probe succeeds.
Backfill(completed, found) ==
    [i \in 1..Len(completed) |->
        [k |-> completed[i].k, v |-> BackfillEntry(completed[i].v, completed[i].k \in found)]]

\* updated, with the assignment of the increment load left out.
UpdatedBackfillOnly(incNonEmpty, backfilledAny) == backfilledAny

\* updated, with the assignment of the backfill loop left out.
UpdatedFoldOnly(incNonEmpty, backfilledAny) == incNonEmpty

\* updated at "if updated: return completed": set when the increment file was
\* not empty, and when the backfill loop set a bg_url.
Updated(incNonEmpty, backfilledAny) == incNonEmpty \/ backfilledAny

\* pending_paintings: the parsed pending file when it is a list, else [].
LoadPending(pendF) == IF pendF.st = "ok" THEN pendF.data ELSE <<>>

\* The int numbers of a collection: isinstance(v.get("number"), int).
ExistingNumbers(completed) ==
    {completed[i].v.number : i \in {j \in 1..Len(completed) : completed[j].v.number # NoNumber}}

\* max(existing_numbers, default=0) + 1, without the offset: a numbering that
\* ignores the position of the item in the batch.
get_next_number_no_offset(completed, current_index) ==
    MaxOrZero(ExistingNumbers(completed)) + 1

\* len(existing_numbers) + current_index + 1: counts the numbers instead of
\* taking their maximum.
get_next_number_count(completed, current_index) ==
    Cardinality(ExistingNumbers(completed)) + current_index + 1

\* max(existing_numbers, default=0) + current_index: the final + 1 left out.
get_next_number_off_by_one(completed, current_index) ==
    MaxOrZero(ExistingNumbers(completed)) + current_index

\* max(existing_numbers, default=0) + current_index + 1
get_next_number(completed, current_index) ==
    MaxOrZero(ExistingNumbers(completed)) + current_index + 1

\* What the chat call and the parse of its reply come to for one item:
\*   ok         the reply parses to a JSON object naming the work;
\*   transport  chat raised;  empty  the message content is empty;
\*   notjson    the content is not JSON.
\* exists: what url_exists answers for the new filename.
OkOutcomes == [kind : {"ok"}, work : Works, exists : BOOLEAN]
FailOutcomes == [kind : {"transport", "empty", "notjson"}, work : {""}, exists : {FALSE}]
Outcomes == OkOutcomes \cup FailOutcomes

\* answer["bg_url"] unconditionally set to the URL of the new filename.
AnswerBgUrlAlways(filename, exists) == filename

\* answer["bg_url"] = url if url_exists(url) else None
AnswerBgUrl(filename, exists) == IF exists THEN filename ELSE NoFile

\* answer, for the item at 0-based offset i whose outcome o is ok.
Answer(completed, i, o) ==
    LET number == get_next_number(completed, i)
        filename == Filename(number, o.work)
    IN Entry(o.work, number, filename, AnswerBgUrl(filename, o.exists), FALSE)

RECURSIVE EnrichLoop(_, _, _)
\* newdata after the first n items of the batch.
EnrichLoop(completed, outcomes, n) ==
    IF n = 0 THEN <<>>
    ELSE LET prev == EnrichLoop(completed, outcomes, n - 1)
             answer == Answer(completed, n - 1, outcomes[n])
         IN IF outcomes[n].kind = "ok" THEN Put(prev, answer.filename, answer) ELSE prev

\* processed_indices (0-based).
ProcessedIndices(outcomes) == {i - 1 : i \in {j \in 1..Len(outcomes) : outcomes[j].kind = "ok"}}

\* list.pop(i), i 0-based.
Pop(list, i) == [j \in 1..(Len(list) - 1) |-> IF j <= i THEN list[j] ELSE list[j + 1]]

RECURSIVE PopProcessed(_, _, _)
\* for i in sorted(processed_indices, reverse=True): if i < len(pending): pending.pop(i)
\* from index i downwards.
PopProcessed(pending, processed, i) ==
    IF i < 0 THEN pending
    ELSE PopProcessed(IF i \in processed /\ i < Len(pending) THEN Pop(pending, i) ELSE pending,
                      processed, i - 1)

\* pending = [i for i in completed.values() if i.get("bg_url") is not None]
\* The list holds the dicts of completed themselves.
CompletedCount(completed) == SelectSeq(Values(completed), LAMBDA e : e.bg_url # NoFile)

\* The list json.dump writes to the pending path after the batch: the list
\* named pending, with the processed indices popped, each dict as the backfill
\* loop left it.
PendingToSave(completed, outcomes) ==
    LET pending == CompletedCount(completed)
        asItems == [j \in 1..Len(pending) |-> Other(pending[j])]
    IN PopProcessed(asItems, ProcessedIndices(outcomes), Len(outcomes) - 1)

\* The items of the batch whose enrichment failed, in their order.
FailedItems(items, outcomes) ==
    LET idx == {j \in 1..Len(items) : outcomes[j].kind # "ok"}
        F[n \in 0..Len(items)] ==
            IF n = 0 THEN <<>> ELSE IF n \in idx THEN Append(F[n - 1], items[n]) ELSE F[n - 1]
    IN F[Len(items)]

\* populate(destination_json, paintings, base_url).
\*   found     the keys of completed whose backfill probe succeeds;
\*   outcomes  one outcome per pending item.
\* Gives the returned dict, the pending and increment files as the call leaves
\* them, and what the call did.
populate(mainF, incF, pendF, paintings, found, outcomes) ==
    LET folded == LoadAndFold(mainF, incF)
        filled == Backfill(folded, found)
        backfilled == {k \in Keys(folded) :
                          Lookup(folded, k).bg_url = NoFile /\ Lookup(filled, k).bg_url # NoFile}
        updated == Updated(IncNonEmpty(incF), backfilled # {})
        items == LoadPending(pendF)
        newdata == EnrichLoop(filled, outcomes, Len(items))
        processed == ProcessedIndices(outcomes)
        quiet == [completed |-> folded, pendOut |-> pendF, incOut |-> incF,
                  branch |-> "ingest", backfilled |-> {}, probes |-> {}, probedOK |-> {},
                  pendRead |-> FALSE, chatCalls |-> 0, wrotePend |-> FALSE,
                  wroteInc |-> FALSE, items |-> <<>>, outcomes |-> <<>>, newdata |-> <<>>,
                  base |-> <<>>, folded |-> folded, found |-> {}, backfillProbes |-> {}]
        probedBackfill == {Lookup(folded, k).filename : k \in BackfillKeys(folded)}
        okBackfill == {Lookup(folded, k).filename : k \in found \cap BackfillKeys(folded)}
    IN IF paintings # <<>>
       THEN [quiet EXCEPT !.completed = IngestStubs(folded, paintings)]
       ELSE IF updated
       THEN [quiet EXCEPT !.completed = filled,
                          !.branch = IF backfilled # {} THEN "backfill" ELSE "fold",
                          !.backfilled = backfilled,
                          !.found = found \cap BackfillKeys(folded),
                          !.backfillProbes = probedBackfill,
                          !.probes = probedBackfill, !.probedOK = okBackfill]
       ELSE [quiet EXCEPT !.completed = filled,
                          !.branch = "enrich",
                          !.backfilled = backfilled,
                          !.found = found \cap BackfillKeys(folded),
                          !.backfillProbes = probedBackfill,
                          !.probes = probedBackfill \cup
                              {Answer(filled, i - 1, outcomes[i]).filename :
                                  i \in {j \in 1..Len(items) : outcomes[j].kind = "ok"}},
                          !.probedOK = okBackfill \cup
                              {Answer(filled, i - 1, outcomes[i]).filename :
                                  i \in {j \in 1..Len(items) :
                                            outcomes[j].kind = "ok" /\ outcomes[j].exists}},
                          !.pendRead = TRUE,
                          !.chatCalls = Len(items),
                          !.items = items,
                          !.outcomes = outcomes,
                          !.newdata = newdata,
                          !.base = filled,
                          !.wrotePend = processed # {},
                          !.wroteInc = processed # {},
                          !.pendOut = IF processed # {}
                                      THEN File(PendingToSave(filled, outcomes)) ELSE pendF,
                          !.incOut = IF processed # {} THEN File(newdata) ELSE incF]

\* ---------------------------------------------------------------- state

VARIABLES
    mainFile,       \* populated_json
    incFile,        \* its .incremental.completed.json
    pendFile,       \* its .incremental.pending.json
    paintingsFile,  \* paintings_json
    probed,         \* filenames whose existence probe has returned success so far
    awaiting,       \* newdata of the latest enrichment run, until the next populate run
    last,           \* the latest command: what it read, did and found
    fold,           \* the fold step on its own: its operands and results
    job             \* a call of one function on its own: its arguments and results

vars == <<mainFile, incFile, pendFile, paintingsFile, probed, awaiting, last, fold, job>>

\* The record of a command that did not call populate.
NoRun ==
    [completed |-> <<>>, pendOut |-> Absent, incOut |-> Absent,
     branch |-> "none", backfilled |-> {}, probes |-> {}, probedOK |-> {},
     pendRead |-> FALSE, chatCalls |-> 0, wrotePend |-> FALSE,
     wroteInc |-> FALSE, items |-> <<>>, outcomes |-> <<>>, newdata |-> <<>>,
     base |-> <<>>, folded |-> <<>>, found |-> {}, backfillProbes |-> {}]

Log(cmd, raised, run) ==
    [cmd |-> cmd, raised |-> raised, run |-> run,
     mainBefore |-> mainFile, incBefore |-> incFile, pendBefore |-> pendFile,
     paintingsBefore |-> paintingsFile, awaitingBefore |-> awaiting]

\* A paintings list of n raw "author - title" stubs: p, q, p, q, ...
StubList(n) == [i \in 1..n |-> Stub(IF i % 2 = 1 THEN "p" ELSE "q")]

\* An enriched, unpublished record left by an older version (it still has image_url).
OldEntry == Entry("cd", 2, Filename(2, "cd"), NoFile, TRUE)

\* No function is called on its own.
JobIdle == [op |-> "none"]

\* The fold step is not run on its own.
FoldIdle == [pc |-> "idle", main |-> <<>>, inc |-> <<>>, once |-> <<>>, twice |-> <<>>]

InitMains ==
    {Absent, Malformed, File(<<>>),
     File(<<[k |-> Filename(2, "cd"), v |-> OldEntry]>>),
     File(<<[k |-> NewKey("p"), v |-> StubEntry("p")],
            [k |-> Filename(2, "cd"), v |-> OldEntry]>>)}

Init ==
    /\ mainFile \in InitMains
    /\ incFile \in {Absent, Malformed, File(<<>>)}
    /\ pendFile \in {Absent, Malformed, File(<<>>)}
    /\ paintingsFile \in {Absent} \cup {File(StubList(n)) : n \in 0..MaxPaintings}
    /\ probed = {}
    /\ awaiting = <<>>
    /\ fold = FoldIdle
    /\ job = JobIdle
    /\ last = [cmd |-> "init", raised |-> FALSE, run |-> NoRun,
               mainBefore |-> mainFile, incBefore |-> incFile, pendBefore |-> pendFile,
               paintingsBefore |-> paintingsFile, awaitingBefore |-> <<>>]

\* p[a:] for a list p (a 0-based).
SliceFrom(p, a) == [i \in 1..(IF Len(p) > a THEN Len(p) - a ELSE 0) |-> p[i + a]]
\* p[0:b]
SliceTo(p, b) == [i \in 1..(IF Len(p) > b THEN b ELSE Len(p)) |-> p[i]]

\* main.py, command "populate --increment": the first BatchSize stubs of the
\* paintings list become the pending file; the rest is written back when there
\* is a rest.  A missing paintings file raises before anything is written.
PopulateIncrement ==
    IF paintingsFile.st # "ok"
    THEN /\ last' = Log("increment", TRUE, NoRun)
         /\ last' # last
         /\ UNCHANGED <<mainFile, incFile, pendFile, paintingsFile, probed, awaiting, fold, job>>
    ELSE LET p == paintingsFile.data
             paintings == SliceTo(p, BatchSize)
             finished_paintings == IF Len(p) > BatchSize THEN SliceFrom(p, BatchSize) ELSE <<>>
         IN /\ pendFile' = File(paintings)
            /\ paintingsFile' = IF Len(finished_paintings) > 0
                                THEN File(finished_paintings) ELSE paintingsFile
            /\ last' = Log("increment", FALSE, NoRun)
            /\ UNCHANGED <<mainFile, incFile, probed, awaiting, fold, job>>

\* The increment file left as populate left it.
StripIncrementKeepAll(incF, populated) == incF

\* The test inverted: the keys of populated are the ones kept.
StripIncrementInverted(incF, populated) ==
    IF incF.st = "ok"
    THEN File(SelectSeq(incF.data, LAMBDA x : HasKey(populated, x.k)))
    ELSE incF

\* The increment file emptied after the run, whatever populated holds.
StripIncrementAll(incF, populated) == IF incF.st = "ok" THEN File(<<>>) ELSE incF

\* The increment file as main.py leaves it after populate returned: the keys
\* of populated are dropped from it.  Opening it raises when it is absent,
\* json.load raises when it is malformed; main is already written by then.
StripIncrement(incF, populated) ==
    IF incF.st = "ok"
    THEN File(SelectSeq(incF.data, LAMBDA x : ~HasKey(populated, x.k)))
    ELSE incF

\* What a populate command leaves behind: main.py writes the returned dict to
\* the main file, then rewrites the increment file.
Finish(r) ==
    /\ mainFile' = File(r.completed)
    /\ pendFile' = r.pendOut
    /\ incFile' = StripIncrement(r.incOut, r.completed)
    /\ probed' = probed \cup r.probedOK
    /\ awaiting' = IF r.branch = "enrich" /\ r.newdata # <<>> THEN r.newdata ELSE <<>>
    /\ last' = Log("populate", r.incOut.st # "ok", r)
    /\ UNCHANGED <<paintingsFile, fold, job>>

\* An outcome for every pending item, for a run that asks for none.
NoOutcomes(pendF) ==
    [i \in 1..Len(LoadPending(pendF)) |-> [kind |-> "transport", work |-> "", exists |-> FALSE]]

\* main.py, command "populate" without --increment: populate(populated_json, [],
\* base_url), then the main file and the increment file are rewritten.  The
\* run is left out of the model when it would assign a number above MaxNum.
PopulateRun ==
    \E found \in SUBSET BackfillKeys(LoadAndFold(mainFile, incFile)) :
        LET r0 == populate(mainFile, incFile, pendFile, <<>>, found, NoOutcomes(pendFile))
        IN IF r0.branch # "enrich"
           THEN Finish(r0)
           ELSE /\ MaxOrZero(ExistingNumbers(r0.base)) + Len(r0.items) <= MaxNum
                /\ \E outcomes \in [1..Len(r0.items) -> Outcomes] :
                       Finish(populate(mainFile, incFile, pendFile, <<>>, found, outcomes))

Next == PopulateIncrement \/ PopulateRun

Spec == Init /\ [][Next]_vars

\* ------------------------------------------------- the fold step, by itself

\* Keys and records the operands of the fold are made of: a filename key and a
\* placeholder key; a record that is unpublished, published, or a bare stub.
FoldKeys == {Filename(1, "ab"), NewKey("p")}
FoldEntries ==
    {Entry("ab", 1, Filename(1, "ab"), NoFile, FALSE),
     Entry("ab", 1, Filename(1, "ab"), Filename(1, "ab"), FALSE),
     Entry("cd", 1, Filename(1, "cd"), NoFile, TRUE),
     StubEntry("p")}

\* Every mapping over FoldKeys with values in FoldEntries, in every key order.
FoldDicts ==
    {d \in UNION {[1..n -> [k : FoldKeys, v : FoldEntries]] : n \in 0..Cardinality(FoldKeys)} :
        \A i, j \in 1..Len(d) : i # j => d[i].k # d[j].k}

FoldInit ==
    /\ mainFile = Absent /\ incFile = Absent /\ pendFile = Absent /\ paintingsFile = Absent
    /\ probed = {} /\ awaiting = <<>> /\ job = JobIdle
    /\ last = [cmd |-> "init", raised |-> FALSE, run |-> NoRun,
               mainBefore |-> Absent, incBefore |-> Absent, pendBefore |-> Absent,
               paintingsBefore |-> Absent, awaitingBefore |-> <<>>]
    /\ \E m \in FoldDicts, n \in FoldDicts :
           fold = [pc |-> "loaded", main |-> m, inc |-> n, once |-> <<>>, twice |-> <<>>]

\* The fold of the increment into main.
FoldOnce ==
    /\ fold.pc = "loaded"
    /\ fold' = [fold EXCEPT !.pc = "once", !.once = Fold(fold.main, fold.inc)]
    /\ UNCHANGED <<mainFile, incFile, pendFile, paintingsFile, probed, awaiting, last, job>>

\* The fold of the same increment into the result of the first fold.
FoldAgain ==
    /\ fold.pc = "once"
    /\ fold' = [fold EXCEPT !.pc = "twice", !.twice = Fold(fold.once, fold.inc)]
    /\ UNCHANGED <<mainFile, incFile, pendFile, paintingsFile, probed, awaiting, last, job>>

FoldNext == FoldOnce \/ FoldAgain

SpecFold == FoldInit /\ [][FoldNext]_vars

\* --------------------------------------- populate called with raw stubs

\* Longest list of raw stubs handed to populate.
MaxStubs == 2

\* The dicts a list of raw stubs is made of: {name} stubs, two of them with
\* the same slug, and a dict without "name".
RawStubs == {Stub("p"), Stub("Ab"), Stub("ab"), Other(NoEntry)}

\* A record published earlier.
PublishedEntry == Entry("ab", 1, Filename(1, "ab"), Filename(1, "ab"), FALSE)

IngestInit ==
    /\ mainFile \in InitMains \cup {File(<<[k |-> NewKey("ab"), v |-> PublishedEntry],
                                            [k |-> Filename(2, "cd"), v |-> OldEntry]>>)}
    /\ incFile \in {Absent, Malformed, File(<<>>),
                    File(<<[k |-> NewKey("ab"), v |-> OldEntry]>>)}
    /\ pendFile \in {Absent, Malformed, File(<<>>), File(StubList(1))}
    /\ paintingsFile = Absent
    /\ probed = {} /\ awaiting = <<>> /\ fold = FoldIdle
    /\ job \in [op : {"populate"},
                paintings : UNION {[1..n -> RawStubs] : n \in 1..MaxStubs}]
    /\ last = [cmd |-> "init", raised |-> FALSE, run |-> NoRun,
               mainBefore |-> mainFile, incBefore |-> incFile, pendBefore |-> pendFile,
               paintingsBefore |-> paintingsFile, awaitingBefore |-> <<>>]

\* populate(destination_json, paintings, base_url) with a non-empty list of
\* raw stubs, whatever the probes and the enrichment calls would answer.  The
\* caller gets the dict; populate itself leaves the main file alone.
PopulateCall ==
    /\ last.cmd = "init"
    /\ \E found \in SUBSET BackfillKeys(LoadAndFold(mainFile, incFile)) :
       \E outcomes \in [1..Len(LoadPending(pendFile)) -> Outcomes] :
           LET r == populate(mainFile, incFile, pendFile, job.paintings, found, outcomes)
           IN /\ pendFile' = r.pendOut
              /\ incFile' = r.incOut
              /\ probed' = probed \cup r.probedOK
              /\ last' = Log("call", FALSE, r)
              /\ UNCHANGED <<mainFile, paintingsFile, awaiting, fold, job>>

SpecIngest == IngestInit /\ [][PopulateCall]_vars

\* -------------------- PopulateCommand (src/src/theframe/cli/commands.py)

\* What the call of the AI endpoint can come to for one item: the POST
\* fails in transport, the response envelope is not JSON, the content is
\* missing or empty, the content is not JSON, or the content is a JSON object.
ApiOutcomes ==
    [kind : {"transport", "envelope", "empty", "notjson"}, work : {""}]
        \cup [kind : {"ok"}, work : Works]

\* get_artwork_info: the POST is outside every try, so its failure leaves the
\* method by the exception; the three other failures print and return None.
get_artwork_info(outcome) ==
    CASE outcome.kind = "transport" -> [raised |-> TRUE, result |-> "None"]
      [] outcome.kind = "envelope" -> [raised |-> FALSE, result |-> "None"]
      [] outcome.kind = "empty" -> [raised |-> FALSE, result |-> "None"]
      [] outcome.kind = "notjson" -> [raised |-> FALSE, result |-> "None"]
      [] OTHER -> [raised |-> FALSE, result |-> outcome.work]

\* os.path.join("./json", str(number).zfill(4) + "-" + slugify(author_title) + ".json")
JsonName(number, work) ==
    [kind |-> "json", num |-> zfill(Digits(number), ZfillWidth), slug |-> slugify(work)]

RECURSIVE IntOf(_)
\* int(file[:4]) of a name that starts with four digits.
IntOf(ds) == IF ds = <<>> THEN 0 ELSE 10 * IntOf(SubSeq(ds, 1, Len(ds) - 1)) + ds[Len(ds)]

\* next_number(directory)
next_number(dir) ==
    LET numbers == {IntOf(SubSeq(f.num, 1, ZfillWidth)) : f \in dir}
    IN IF numbers = {} THEN 1 ELSE Max(numbers) + 1

\* PopulateCommand.execute over the source list and the json directory, the
\* endpoint answering outcome for the item of source[:1].  After a result the
\* source file is opened for writing and nothing is written to it.
execute(source, dir, outcome) ==
    LET batch == SliceTo(source, 1)
        got == get_artwork_info(outcome)
        number == next_number(dir)
        idle == [raised |-> FALSE, attempted |-> 0, skipped |-> 0, dir |-> dir,
                 sourceFile |-> File(source)]
    IN IF batch = <<>> THEN idle
       ELSE IF got.raised THEN [idle EXCEPT !.raised = TRUE, !.attempted = 1]
       ELSE IF got.result = "None" THEN [idle EXCEPT !.attempted = 1, !.skipped = 1]
       ELSE [idle EXCEPT !.attempted = 1,
                         !.dir = dir \cup {JsonName(number, got.result)},
                         !.sourceFile = Malformed]

ExecuteInit ==
    /\ mainFile = Absent /\ incFile = Absent /\ pendFile = Absent /\ paintingsFile = Absent
    /\ probed = {} /\ awaiting = <<>> /\ fold = FoldIdle
    /\ job \in [op : {"execute"}, pc : {"start"},
                source : {StubList(n) : n \in 0..MaxPaintings},
                dir : SUBSET {JsonName(n, "cd") : n \in 1..MaxNum},
                outcome : ApiOutcomes,
                res : {[raised |-> FALSE, attempted |-> 0, skipped |-> 0, dir |-> {},
                        sourceFile |-> Absent]}]
    /\ last = [cmd |-> "init", raised |-> FALSE, run |-> NoRun,
               mainBefore |-> mainFile, incBefore |-> incFile, pendBefore |-> pendFile,
               paintingsBefore |-> paintingsFile, awaitingBefore |-> <<>>]

Execute ==
    /\ job.pc = "start"
    /\ job' = [job EXCEPT !.pc = "done",
                          !.res = execute(job.source, job.dir, job.outcome)]
    /\ UNCHANGED <<mainFile, incFile, pendFile, paintingsFile, probed, awaiting, last, fold>>

SpecExecute == ExecuteInit /\ [][Execute]_vars

\* --------------------------------------------- url_exists (src/tools.py)

\* The status codes a HEAD request can end with, redirects followed.
Statuses == 100..599

\* The requests exceptions of a request that got no response: connection
\* refused or reset, DNS failure, TLS failure, timeout, redirect loop.
TransportErrors == {"ConnectionError", "SSLError", "ConnectTimeout", "ReadTimeout",
                    "TooManyRedirects"}

\* The subclasses of requests.RequestException among them: all of them.
RequestExceptions == {"ConnectionError", "SSLError", "ConnectTimeout", "ReadTimeout",
                      "TooManyRedirects", "InvalidURL"}

\* What requests.head(url, allow_redirects=True, timeout=10) comes to.
HeadResults ==
    [kind : {"response"}, status_code : Statuses, exc : {""}]
        \cup [kind : {"raise"}, status_code : {0}, exc : TransportErrors]

\* result = response.ok: every status below 400.
url_exists_ok(head) ==
    IF head.kind = "response"
    THEN IF head.status_code < 400 THEN "True" ELSE "False"
    ELSE IF head.exc \in RequestExceptions THEN "False" ELSE "raise"

\* url_exists(url), by what the HEAD request comes to.
url_exists(head) ==
    IF head.kind = "response"
    THEN IF head.status_code = 200 THEN "True" ELSE "False"
    ELSE IF head.exc \in RequestExceptions THEN "False" ELSE "raise"

ProbeInit ==
    /\ mainFile = Absent /\ incFile = Absent /\ pendFile = Absent /\ paintingsFile = Absent
    /\ probed = {} /\ awaiting = <<>> /\ fold = FoldIdle
    /\ job \in [op : {"url_exists"}, pc : {"start"}, head : HeadResults, out : {"none"}]
    /\ last = [cmd |-> "init", raised |-> FALSE, run |-> NoRun,
               mainBefore |-> mainFile, incBefore |-> incFile, pendBefore |-> pendFile,
               paintingsBefore |-> paintingsFile, awaitingBefore |-> <<>>]

Probe ==
    /\ job.pc = "start"
    /\ job' = [job EXCEPT !.pc = "done", !.out = url_exists(job.head)]
    /\ UNCHANGED <<mainFile, incFile, pendFile, paintingsFile, probed, awaiting, last, fold>>

SpecProbe == ProbeInit /\ [][Probe]_vars

\* ------------------- find_duplicates (src/tools.py, metadata_service.py)

\* Longest list handed to the duplicate check.
MaxList == 3

\* A "title" or "author" key that is not in the dict, or holds null.
MissingText == "<missing>"
NullText == "<null>"

\* s.lower().strip() of the texts used here.
lower_strip(s) ==
    CASE s = "Ab" -> "ab"
      [] s = " ab " -> "ab"
      [] s = " CD" -> "cd"
      [] OTHER -> s

\* painting.get(field, "") or ""
get_or_empty(v) == IF v \in {MissingText, NullText} THEN "" ELSE v

\* identifier = (title.lower().strip(), author.lower().strip())
identifier(painting) ==
    <<lower_strip(get_or_empty(painting.title)), lower_strip(get_or_empty(painting.author))>>

\* tools.find_duplicates(paintings): the positions, in order, of the paintings
\* it appends to duplicates; seen[identifier] > 1 once it was counted before.
find_duplicates(paintings) ==
    LET F[n \in 0..Len(paintings)] ==
            IF n = 0 THEN <<>>
            ELSE IF \E j \in 1..(n - 1) : identifier(paintings[j]) = identifier(paintings[n])
                 THEN Append(F[n - 1], n)
                 ELSE F[n - 1]
    IN F[Len(paintings)]

\* ArtworkMetadata(**data): author and title are required strings.
Loadable(painting) ==
    /\ painting.title \notin {MissingText, NullText}
    /\ painting.author \notin {MissingText, NullText}

\* key = f"{artwork.metadata.title}|{artwork.metadata.author}"
artwork_key(painting) == <<painting.title, painting.author>>

\* MetadataService.find_duplicates(collection): the positions of the artworks
\* it appends to duplicates; the key is in seen once an earlier artwork had it.
service_find_duplicates(artworks) ==
    LET F[n \in 0..Len(artworks)] ==
            IF n = 0 THEN <<>>
            ELSE IF \E j \in 1..(n - 1) : artwork_key(artworks[j]) = artwork_key(artworks[n])
                 THEN Append(F[n - 1], n)
                 ELSE F[n - 1]
    IN F[Len(artworks)]

\* The dicts the lists are made of.
Paintings ==
    [title : {"Ab", " ab ", NullText, MissingText}, author : {"cd", " CD"}, number : {1, 2}]

DuplicatesInit ==
    /\ mainFile = Absent /\ incFile = Absent /\ pendFile = Absent /\ paintingsFile = Absent
    /\ probed = {} /\ awaiting = <<>> /\ fold = FoldIdle
    /\ job \in [op : {"find_duplicates"}, pc : {"start"},
                paintings : UNION {[1..n -> Paintings] : n \in 0..MaxList},
                by : {"none"}, raised : {FALSE}, duplicates : {<<>>}]
    /\ last = [cmd |-> "init", raised |-> FALSE, run |-> NoRun,
               mainBefore |-> mainFile, incBefore |-> incFile, pendBefore |-> pendFile,
               paintingsBefore |-> paintingsFile, awaitingBefore |-> <<>>]

\* find_duplicates of src/tools.py on the list.
FindDuplicates ==
    /\ job.pc = "start"
    /\ job' = [job EXCEPT !.pc = "done", !.by = "tools",
                          !.duplicates = find_duplicates(job.paintings)]
    /\ UNCHANGED <<mainFile, incFile, pendFile, paintingsFile, probed, awaiting, last, fold>>

\* MetadataService.find_duplicates on the collection loaded from the list;
\* the load raises on a dict without a title or an author.
ServiceFindDuplicates ==
    /\ job.pc = "start"
    /\ job' = IF \A i \in 1..Len(job.paintings) : Loadable(job.paintings[i])
              THEN [job EXCEPT !.pc = "done", !.by = "service",
                               !.duplicates = service_find_duplicates(job.paintings)]
              ELSE [job EXCEPT !.pc = "done", !.by = "service", !.raised = TRUE]
    /\ UNCHANGED <<mainFile, incFile, pendFile, paintingsFile, probed, awaiting, last, fold>>

DuplicatesNext == FindDuplicates \/ ServiceFindDuplicates

SpecDuplicates == DuplicatesInit /\ [][DuplicatesNext]_vars

\* ------------------------------ the errors pass (src/main.py, commands.py)

\* Most entries of a main collection handed to the errors pass.
MaxEntries == 3

\* reversed(list)
Reverse(q) == [i \in 1..Len(q) |-> q[Len(q) + 1 - i]]

\* [v for v in populated.values() if v.get("filename")]
WithFilename(populated) == SelectSeq(Values(populated), LAMBDA e : e.filename # NoFile)

\* A number already in the set numbers is logged the first time only.
DuplicatedOncePerNumber(list) ==
    LET F[n \in 0..Len(list)] ==
            IF n = 0 THEN <<>>
            ELSE IF /\ \E j \in 1..(n - 1) : list[j].number = list[n].number
                    /\ \A i \in 1..Len(F[n - 1]) : F[n - 1][i] # list[n].number
                 THEN Append(F[n - 1], list[n].number)
                 ELSE F[n - 1]
    IN F[Len(list)]

\* The numbers logged as "Duplicated", in the order of the log: the loop goes
\* over the list and logs a number that is already in the set numbers.
Duplicated(list) ==
    LET F[n \in 0..Len(list)] ==
            IF n = 0 THEN <<>>
            ELSE IF \E j \in 1..(n - 1) : list[j].number = list[n].number
                 THEN Append(F[n - 1], list[n].number)
                 ELSE F[n - 1]
    IN F[Len(list)]

\* str(number).zfill(4) != filename.split("-")[0]; str(None) is "None".
FilenameMismatch(e) ==
    IF e.number = NoNumber THEN TRUE
    ELSE zfill(Digits(e.number), ZfillWidth) # e.filename.num

\* missing = set(range(1, len(numbers) + 1)) - numbers
MissingByLen(numbers) == (1..Cardinality(numbers)) \ numbers

\* expected = set(range(1, max(numbers) + 1)); missing = expected - numbers
MissingByMax(numbers) == IF numbers = {} THEN {} ELSE (1..Max(numbers)) \ numbers

\* The (title, author) of a record, as the duplicate check reads it.
PaintingOf(e) == [title |-> e.work, author |-> e.work, number |-> e.number]

NoFindings ==
    [duplicated |-> <<>>, mismatch |-> <<>>, missing_bg |-> <<>>, missing |-> {},
     duplicates |-> <<>>, missing_images |-> <<>>]

\* main.py, command "errors", on the parsed main file: what it logs.
errors_pass(populated) ==
    LET list == Reverse(WithFilename(populated))
        numbers == {list[i].number : i \in 1..Len(list)}
        checked == WithFilename(populated)
    IN [NoFindings EXCEPT
           !.duplicated = Duplicated(list),
           !.mismatch = SelectSeq(list, FilenameMismatch),
           !.missing_bg = SelectSeq(list, LAMBDA e : e.bg_url = NoFile),
           !.missing = MissingByLen(numbers),
           !.duplicates = find_duplicates([i \in 1..Len(checked) |-> PaintingOf(checked[i])])]

\* Artwork.filename: slugify(f"{str(number).zfill(4)} - {author} - {title}") + ".jpg"
ArtworkFilename(e) == Filename(e.number, e.work)

\* The files of the directory "artworks" whose name starts with f"{number:04d}-".
OldFiles(images, number) ==
    {f \in images : SubSeq(f.num, 1, ZfillWidth) = zfill(Digits(number), ZfillWidth)}

RECURSIVE find_missing_images(_, _)
\* MetadataService.find_missing_images over the artworks in order: an artwork
\* whose file is not in the directory is reported, and the first listed file
\* that starts with its number is renamed to its filename.
find_missing_images(artworks, images) ==
    IF artworks = <<>> THEN [missing |-> <<>>, images |-> images]
    ELSE LET a == Head(artworks)
             old == OldFiles(images, a.number)
             renamed == IF ArtworkFilename(a) \in images \/ old = {} THEN images
                        ELSE (images \ {CHOOSE f \in old : TRUE}) \cup {ArtworkFilename(a)}
             rest == find_missing_images(Tail(artworks), renamed)
         IN [missing |-> IF ArtworkFilename(a) \in images THEN rest.missing
                         ELSE <<a>> \o rest.missing,
             images |-> rest.images]

\* ErrorsCommand.execute on the main file and the directory "artworks": what
\* it logs and the directory as it leaves it.  The load raises when the file
\* is absent or not JSON, or holds a record without the required metadata.
errors_execute(mainF, images) ==
    LET artworks == Values(mainF.data)
        numbers == {artworks[i].number : i \in 1..Len(artworks)}
        found == find_missing_images(artworks, images)
        dups == service_find_duplicates([i \in 1..Len(artworks) |-> PaintingOf(artworks[i])])
    IN IF mainF.st # "ok" \/ \E i \in 1..Len(artworks) : artworks[i].filename = NoFile
       THEN [raised |-> TRUE, images |-> images, findings |-> NoFindings]
       ELSE [raised |-> FALSE, images |-> found.images,
             findings |-> [NoFindings EXCEPT
                 !.duplicates = [i \in 1..Len(dups) |-> artworks[dups[i]]],
                 !.missing_images = found.missing,
                 !.duplicated = Duplicated(artworks),
                 !.missing = MissingByMax(numbers)]]

\* The records of the collections handed to the errors pass: enriched records
\* with any number, and a raw stub.
ErrorEntries ==
    {Entry(w, n, Filename(n, w), NoFile, FALSE) : w \in {"Ab", "cd"}, n \in 1..(MaxEntries + 1)}
        \cup {StubEntry("p")}

\* The key of the i-th record.
ErrorKey(i) == [kind |-> "key", num |-> <<i>>, slug |-> ""]

ErrorsInit ==
    /\ mainFile \in {Absent, Malformed} \cup
           {File([i \in 1..Len(f) |-> [k |-> ErrorKey(i), v |-> f[i]]]) :
               f \in UNION {[1..n -> ErrorEntries] : n \in 0..MaxEntries}}
    /\ incFile = Absent /\ pendFile = Absent /\ paintingsFile = Absent
    /\ probed = {} /\ awaiting = <<>> /\ fold = FoldIdle
    /\ job \in [op : {"errors"}, pc : {"start"}, by : {"none"}, raised : {FALSE},
                images : SUBSET {Filename(1, "Ab"), Filename(1, "cd")},
                imagesBefore : {{}},
                findings : {NoFindings}]
    /\ last = [cmd |-> "init", raised |-> FALSE, run |-> NoRun,
               mainBefore |-> mainFile, incBefore |-> incFile, pendBefore |-> pendFile,
               paintingsBefore |-> paintingsFile, awaitingBefore |-> <<>>]

\* main.py, command "errors": opens and parses the main file (raising when it
\* is absent or not JSON), logs its findings, writes nothing.
ErrorsRun ==
    /\ job.pc = "start"
    /\ job' = IF mainFile.st = "ok"
              THEN [job EXCEPT !.pc = "done", !.by = "main", !.imagesBefore = job.images,
                               !.findings = errors_pass(mainFile.data)]
              ELSE [job EXCEPT !.pc = "done", !.by = "main", !.imagesBefore = job.images,
                               !.raised = TRUE]
    /\ last' = Log("errors", mainFile.st # "ok", NoRun)
    /\ UNCHANGED <<mainFile, incFile, pendFile, paintingsFile, probed, awaiting, fold>>

\* ErrorsCommand.execute of the package.
ErrorsCommandRun ==
    /\ job.pc = "start"
    /\ LET r == errors_execute(mainFile, job.images)
       IN /\ job' = [job EXCEPT !.pc = "done", !.by = "command", !.raised = r.raised,
                                !.imagesBefore = job.images,
                                !.images = r.images, !.findings = r.findings]
          /\ last' = Log("errors", r.raised, NoRun)
    /\ UNCHANGED <<mainFile, incFile, pendFile, paintingsFile, probed, awaiting, fold>>

ErrorsNext == ErrorsRun \/ ErrorsCommandRun

SpecErrors == ErrorsInit /\ [][ErrorsNext]_vars

\* ------------------------- the upload command (src/main.py, commands.py)

\* What the download of the chosen image comes to: the bytes, a transport
\* error, or a response with an error status.
Downloads == {"ok", "request_error", "http_error"}

\* The records of the collections the upload command reads: a published
\* record, an enriched record without bg_url, and a raw stub.
UploadEntries == {PublishedEntry, OldEntry, StubEntry("p")}

\* Nothing was handed to the TV client.
NothingSent == [any |-> FALSE, entry |-> NoEntry]
Sent(e) == [any |-> TRUE, entry |-> e]

\* selected_images = [i for i in populated.values() if i.get("bg_url")]
selected_images(populated) ==
    {Values(populated)[i] : i \in {j \in 1..Len(populated) : populated[j].v.bg_url # NoFile}}

\* [v for v in collection.artworks.values() if v.bg_url is not None]: bg_url
\* is the property Artwork.bg_url, a URL built from the filename for every
\* artwork, so no artwork is left out.
random_artworks(populated) ==
    {Values(populated)[i] : i \in 1..Len(populated)}

\* main.py, command "upload", after its settings were found: pick_random_image
\* gives None when the main file is absent or not JSON, when no record has a
\* bg_url and when the download fails, and main.py then exits with code 1;
\* with --test the image is not handed to the TV.
upload(mainF, choice, download, test) ==
    IF mainF.st # "ok" \/ selected_images(mainF.data) = {} \/ download # "ok"
    THEN [sent |-> NothingSent, exit |-> 1]
    ELSE [sent |-> IF test THEN NothingSent ELSE Sent(choice), exit |-> 0]

\* UploadCommand.execute: the load raises on an absent or unparseable file and
\* on a record without the required metadata, an empty collection raises, the
\* download raises when it fails; a raised error ends the process with code 1.
upload_execute(mainF, choice, download, test) ==
    IF \/ mainF.st # "ok"
       \/ \E i \in 1..Len(mainF.data) : mainF.data[i].v.filename = NoFile
       \/ Len(mainF.data) = 0
       \/ download # "ok"
    THEN [sent |-> NothingSent, exit |-> 1]
    ELSE [sent |-> IF test THEN NothingSent ELSE Sent(choice), exit |-> 0]

UploadInit ==
    /\ mainFile \in {Absent, Malformed} \cup
           {File([i \in 1..Len(f) |-> [k |-> ErrorKey(i), v |-> f[i]]]) :
               f \in UNION {[1..n -> UploadEntries] : n \in 0..MaxEntries}}
    /\ incFile = Absent /\ pendFile = Absent /\ paintingsFile = Absent
    /\ probed = {} /\ awaiting = <<>> /\ fold = FoldIdle
    /\ job \in [op : {"upload"}, pc : {"start"}, by : {"none"},
                download : Downloads, test : BOOLEAN,
                sent : {NothingSent}, exit : {0}]
    /\ last = [cmd |-> "init", raised |-> FALSE, run |-> NoRun,
               mainBefore |-> mainFile, incBefore |-> incFile, pendBefore |-> pendFile,
               paintingsBefore |-> paintingsFile, awaitingBefore |-> <<>>]

\* main.py, command "upload": random.choice among the records with a bg_url.
UploadRun ==
    /\ job.pc = "start"
    /\ \E choice \in (IF mainFile.st = "ok" /\ selected_images(mainFile.data) # {}
                      THEN selected_images(mainFile.data) ELSE {NoEntry}) :
           LET r == upload(mainFile, choice, job.download, job.test)
           IN job' = [job EXCEPT !.pc = "done", !.by = "main",
                                 !.sent = r.sent, !.exit = r.exit]
    /\ UNCHANGED <<mainFile, incFile, pendFile, paintingsFile, probed, awaiting, last, fold>>

\* UploadCommand.execute of the package: random.choice among all artworks.
UploadCommandRun ==
    /\ job.pc = "start"
    /\ \E choice \in (IF mainFile.st = "ok" /\ random_artworks(mainFile.data) # {}
                      THEN random_artworks(mainFile.data) ELSE {NoEntry}) :
           LET r == upload_execute(mainFile, choice, job.download, job.test)
           IN job' = [job EXCEPT !.pc = "done", !.by = "command",
                                 !.sent = r.sent, !.exit = r.exit]
    /\ UNCHANGED <<mainFile, incFile, pendFile, paintingsFile, probed, awaiting, last, fold>>

UploadNext == UploadRun \/ UploadCommandRun

SpecUpload == UploadInit /\ [][UploadNext]_vars

\* ---------------------------------- required settings (src/main.py: main)

Commands == {"upload", "generate", "populate", "errors"}

\* The settings main.py looks up, each as args.<name> or config.<name>.
Settings == {"ip", "token", "populated_json", "paintings_json", "images_dir", "base_url"}

\* Where a setting is given: on the command line, in the environment
\* (THEFRAME_<NAME>, possibly through .env), or nowhere.
Given == {"args", "env", "nowhere"}

\* args.<name> or config.<name> is falsy.
Unset(given, name) == given[name] = "nowhere"

\* The upload branch without the test of the token.
ChecksNoToken(command) ==
    CASE command = "upload" -> <<"ip", "populated_json">>
      [] command = "generate" -> <<"paintings_json", "images_dir", "base_url">>
      [] command = "populate" -> <<"paintings_json", "populated_json", "base_url">>
      [] OTHER -> <<"populated_json">>

\* The settings each branch of main tests, in the order of the tests; each
\* test that fails logs an error and calls sys.exit(1).
Checks(command) ==
    CASE command = "upload" -> <<"ip", "token", "populated_json">>
      [] command = "generate" -> <<"paintings_json", "images_dir", "base_url">>
      [] command = "populate" -> <<"paintings_json", "populated_json", "base_url">>
      [] OTHER -> <<"populated_json">>

\* What each branch goes on to touch once its tests have passed.
Touches(command, increment) ==
    CASE command = "upload" -> {"main file", "network", "tv"}
      [] command = "generate" -> {"images dir", "paintings file"}
      [] command = "populate" /\ increment -> {"paintings file", "pending file"}
      [] command = "populate" /\ ~increment ->
             {"main file", "increment file", "pending file", "network"}
      [] OTHER -> {"main file"}

\* main() up to the work of the command: the first unset setting ends the
\* process with code 1 and nothing touched.
main_settings(command, given, increment) ==
    IF \E i \in 1..Len(Checks(command)) : Unset(given, Checks(command)[i])
    THEN [exited |-> TRUE, touched |-> {}]
    ELSE [exited |-> FALSE, touched |-> Touches(command, increment)]

SettingsInit ==
    /\ mainFile = Absent /\ incFile = Absent /\ pendFile = Absent /\ paintingsFile = Absent
    /\ probed = {} /\ awaiting = <<>> /\ fold = FoldIdle
    /\ job \in [op : {"main"}, pc : {"start"}, command : Commands,
                given : [Settings -> Given], increment : BOOLEAN,
                exit : {0}, touched : {{}}]
    /\ last = [cmd |-> "init", raised |-> FALSE, run |-> NoRun,
               mainBefore |-> mainFile, incBefore |-> incFile, pendBefore |-> pendFile,
               paintingsBefore |-> paintingsFile, awaitingBefore |-> <<>>]

\* One run of main.py; a command that gets to its work ends with any code.
MainRun ==
    /\ job.pc = "start"
    /\ LET r == main_settings(job.command, job.given, job.increment)
       IN \E code \in (IF r.exited THEN {1} ELSE {0, 1}) :
              job' = [job EXCEPT !.pc = "done", !.exit = code, !.touched = r.touched]
    /\ UNCHANGED <<mainFile, incFile, pendFile, paintingsFile, probed, awaiting, last, fold>>

SpecSettings == SettingsInit /\ [][MainRun]_vars

\* ------------------------------------ the filename codec (src/tools.py)

\* Largest number handed to the codec: one more than the first number with
\* more digits than the padding.
MaxFileNumber == 10001

CodecInit ==
    /\ mainFile = Absent /\ incFile = Absent /\ pendFile = Absent /\ paintingsFile = Absent
    /\ probed = {} /\ awaiting = <<>> /\ fold = FoldIdle
    /\ job \in [op : {"filename"}, pc : {"start"}, number : 1..MaxFileNumber,
                work : Works, out : {NoFile}]
    /\ last = [cmd |-> "init", raised |-> FALSE, run |-> NoRun,
               mainBefore |-> mainFile, incBefore |-> incFile, pendBefore |-> pendFile,
               paintingsBefore |-> paintingsFile, awaitingBefore |-> <<>>]

\* answer["filename"] = f"{str(number).zfill(4)}-{slugify(author)}-{slugify(title)}.jpg"
Codec ==
    /\ job.pc = "start"
    /\ job' = [job EXCEPT !.pc = "done", !.out = Filename(job.number, job.work)]
    /\ UNCHANGED <<mainFile, incFile, pendFile, paintingsFile, probed, awaiting, last, fold>>

SpecCodec == CodecInit /\ [][Codec]_vars

\* ----------------------- the names of the side files (src/tools.py)

\* Most pieces of a file name handed to the two functions.
MaxPieces == 3

\* A file name is a sequence of pieces: the dot, or a run of other characters.
Pieces == {".", "test", "json", "JSON", "txt"}

\* The directories of the paths: none (a relative name), /tmp, /tmp/data.
Dirs == {<<>>, <<"tmp">>, <<"tmp", "data">>}

\* The place of the last dot of the name, 0 without one: name.rfind(".").
LastDot(name) ==
    IF \E i \in 1..Len(name) : name[i] = "."
    THEN Max({i \in 1..Len(name) : name[i] = "."})
    ELSE 0

\* Path.suffix: the name from its last dot on, when that dot is neither the
\* first nor the last character; otherwise "".
Suffix(name) ==
    LET i == LastDot(name)
    IN IF 1 < i /\ i < Len(name) THEN SubSeq(name, i, Len(name)) ELSE <<>>

\* str.lower left out: the piece as it is.
lower_same(piece) == piece

\* str.lower of a piece.
lower(piece) == IF piece = "JSON" THEN "json" ELSE piece

\* path.suffix.lower()
SuffixLower(name) == [i \in 1..Len(Suffix(name)) |-> lower(Suffix(name)[i])]

\* path.with_suffix(""): the name without its suffix.
WithoutSuffix(name) == SubSeq(name, 1, Len(name) - Len(Suffix(name)))

\* get_incremental_pending_name / get_incremental_completed_name, kind being
\* "pending" or "completed": ValueError unless the lower-cased suffix is
\* ".json", else the path with the name stem + ".incremental.<kind>.json".
get_incremental_name(kind, dir, name) ==
    IF SuffixLower(name) # <<".", "json">>
    THEN [raised |-> TRUE, dir |-> <<>>, name |-> <<>>]
    ELSE [raised |-> FALSE, dir |-> dir,
          name |-> WithoutSuffix(name) \o <<".", "incremental", ".", kind, ".", "json">>]

NamesInit ==
    /\ mainFile = Absent /\ incFile = Absent /\ pendFile = Absent /\ paintingsFile = Absent
    /\ probed = {} /\ awaiting = <<>> /\ fold = FoldIdle
    /\ job \in [op : {"names"}, pc : {"start"}, dir : Dirs,
                name : UNION {[1..n -> Pieces] : n \in 1..MaxPieces},
                kind : {"none"}, out : {[raised |-> FALSE, dir |-> <<>>, name |-> <<>>]}]
    /\ last = [cmd |-> "init", raised |-> FALSE, run |-> NoRun,
               mainBefore |-> mainFile, incBefore |-> incFile, pendBefore |-> pendFile,
               paintingsBefore |-> paintingsFile, awaitingBefore |-> <<>>]

\* get_incremental_pending_name(path_str)
PendingName ==
    /\ job.pc = "start"
    /\ job' = [job EXCEPT !.pc = "done", !.kind = "pending",
                          !.out = get_incremental_name("pending", job.dir, job.name)]
    /\ UNCHANGED <<mainFile, incFile, pendFile, paintingsFile, probed, awaiting, last, fold>>

\* get_incremental_completed_name(path_str)
CompletedName ==
    /\ job.pc = "start"
    /\ job' = [job EXCEPT !.pc = "done", !.kind = "completed",
                          !.out = get_incremental_name("completed", job.dir, job.name)]
    /\ UNCHANGED <<mainFile, incFile, pendFile, paintingsFile, probed, awaiting, last, fold>>

NamesNext == PendingName \/ CompletedName

SpecNames == NamesInit /\ [][NamesNext]_vars

\* ------------------------------------------- Config (src/main.py)

\* The fields of Config, each Optional[str] = None.
Fields == {"ip", "token", "source_json", "paintings_json", "painters_json",
           "populated_json", "images_dir", "base_url"}

\* The environment variables looked at here: the prefixed name of every field
\* and the bare SOURCE_JSON.
EnvNames == {"THEFRAME_IP", "THEFRAME_TOKEN", "THEFRAME_SOURCE_JSON",
             "THEFRAME_PAINTINGS_JSON", "THEFRAME_PAINTERS_JSON",
             "THEFRAME_POPULATED_JSON", "THEFRAME_IMAGES_DIR", "THEFRAME_BASE_URL",
             "SOURCE_JSON"}

\* A variable that is not set, and the field value None.
NotSet == "<unset>"
EnvValues == {NotSet, "a", "b"}

\* model_config = SettingsConfigDict(env_prefix="THEFRAME_"): a field is read
\* from the variable named by the prefix and the field name.
EnvName(field) ==
    CASE field = "ip" -> "THEFRAME_IP"
      [] field = "token" -> "THEFRAME_TOKEN"
      [] field = "source_json" -> "THEFRAME_SOURCE_JSON"
      [] field = "paintings_json" -> "THEFRAME_PAINTINGS_JSON"
      [] field = "painters_json" -> "THEFRAME_PAINTERS_JSON"
      [] field = "populated_json" -> "THEFRAME_POPULATED_JSON"
      [] field = "images_dir" -> "THEFRAME_IMAGES_DIR"
      [] OTHER -> "THEFRAME_BASE_URL"

\* Config(): every field is the value of its variable, None when it is unset.
Config(env) == [f \in Fields |-> env[EnvName(f)]]

ConfigInit ==
    /\ mainFile = Absent /\ incFile = Absent /\ pendFile = Absent /\ paintingsFile = Absent
    /\ probed = {} /\ awaiting = <<>> /\ fold = FoldIdle
    /\ job \in [op : {"Config"}, pc : {"start"}, env : [EnvNames -> EnvValues],
                config : {[f \in Fields |-> NotSet]}]
    /\ last = [cmd |-> "init", raised |-> FALSE, run |-> NoRun,
               mainBefore |-> mainFile, incBefore |-> incFile, pendBefore |-> pendFile,
               paintingsBefore |-> paintingsFile, awaitingBefore |-> <<>>]

\* config = Config()
LoadConfig ==
    /\ job.pc = "start"
    /\ job' = [job EXCEPT !.pc = "done", !.config = Config(job.env)]
    /\ UNCHANGED <<mainFile, incFile, pendFile, paintingsFile, probed, awaiting, last, fold>>

SpecConfig == ConfigInit /\ [][LoadConfig]_vars

\* ------------------------------------ populate commands that run side by side

\* The processes that run "populate" on the same three files.
Runners == {"a", "b"}

\* What the enrichment of one item comes to in these runs: the model names one
\* of two works, or the call fails.  No existence probe succeeds.
RaceOutcomes ==
    {o \in Outcomes : o.kind = "transport" \/ (o.kind = "ok" /\ o.work \in {"Ab", "cd"} /\ ~o.exists)}

\* A process that is not running the command.
RunnerIdle ==
    [pc |-> "idle", main |-> Absent, inc |-> Absent, pend |-> Absent, outcomes |-> <<>>]

RaceInit ==
    /\ mainFile \in {Absent, File(<<[k |-> Filename(2, "cd"), v |-> OldEntry]>>)}
    /\ incFile = File(<<>>)
    /\ pendFile \in {File(StubList(n)) : n \in 1..BatchSize}
    /\ paintingsFile = Absent
    /\ probed = {} /\ awaiting = <<>> /\ fold = FoldIdle
    /\ last = [cmd |-> "init", raised |-> FALSE, run |-> NoRun,
               mainBefore |-> Absent, incBefore |-> Absent, pendBefore |-> Absent,
               paintingsBefore |-> Absent, awaitingBefore |-> <<>>]
    /\ job = [op |-> "race", runs |-> [r \in Runners |-> RunnerIdle],
              overlapped |-> FALSE, emitted |-> {}, lostOnce |-> FALSE]

\* populate, up to its first enrichment call: the three files are read (main
\* and increment at the top, the pending file before the batch), and what the
\* probes and the calls of this run will answer is fixed.  The run is left out
\* of the model when it would assign a number above MaxNum.
RaceRead(r) ==
    /\ job.runs[r].pc = "idle"
    /\ LET r0 == populate(mainFile, incFile, pendFile, <<>>, {}, NoOutcomes(pendFile))
           begun(outcomes) ==
               job' = [job EXCEPT
                   !.runs[r] = [pc |-> "running", main |-> mainFile, inc |-> incFile,
                                pend |-> pendFile, outcomes |-> outcomes],
                   !.overlapped = @ \/ \E q \in Runners \ {r} : job.runs[q].pc = "running"]
       IN IF r0.branch # "enrich"
          THEN begun(NoOutcomes(pendFile))
          ELSE /\ MaxOrZero(ExistingNumbers(r0.base)) + Len(r0.items) <= MaxNum
               /\ \E outcomes \in [1..Len(r0.items) -> RaceOutcomes] : begun(outcomes)
    /\ UNCHANGED <<mainFile, incFile, pendFile, paintingsFile, probed, awaiting, last, fold>>

\* populate, from its last enrichment call on, and the rest of the command:
\* the pending and the increment file are dumped when an item was enriched,
\* then main.py writes the main file and rewrites the increment file it finds.
RaceWrite(r) ==
    /\ job.runs[r].pc = "running"
    /\ LET s == job.runs[r]
           res == populate(s.main, s.inc, s.pend, <<>>, {}, s.outcomes)
           dumped == IF res.wroteInc THEN res.incOut ELSE incFile
           stripped == StripIncrement(dumped, res.completed)
           emitted == job.emitted \cup (IF res.wroteInc THEN Keys(res.newdata) ELSE {})
       IN /\ pendFile' = IF res.wrotePend THEN res.pendOut ELSE pendFile
          /\ mainFile' = File(res.completed)
          /\ incFile' = stripped
          /\ job' = [job EXCEPT
                        !.runs[r] = RunnerIdle,
                        !.emitted = emitted,
                        !.lostOnce = @ \/ \E k \in emitted :
                                              /\ ~HasKey(res.completed, k)
                                              /\ ~HasKey(LoadMain(stripped), k)]
    /\ UNCHANGED <<paintingsFile, probed, awaiting, last, fold>>

RaceNext == \E r \in Runners : RaceRead(r) \/ RaceWrite(r)

SpecRace == RaceInit /\ [][RaceNext]_vars

\* ------------------------------------------------------------------ claims

\* The latest command was a populate run that reached the enrichment branch.
Enriched == last.cmd = "populate" /\ last.run.branch = "enrich"

\* The main collection the latest command started from.
MainBefore == LoadMain(last.mainBefore)

\* max(integer numbers in main, 0 when there are none), at the start of the run.
MaxBefore == MaxOrZero(ExistingNumbers(MainBefore))

\* The numbers of the entries of a mapping, as a sequence.
NumbersOf(d) == [i \in 1..Len(d) |-> d[i].v.number]

\* C1: after a populate run that reaches the enrichment branch the pending
\* file holds exactly the items of the batch whose enrichment failed, in their
\* original order, and no failed item has an entry (its number) in the
\* completed-increment file.
C1_PendingHoldsFailedItems ==
    Enriched =>
        /\ LoadPending(pendFile) = FailedItems(last.run.items, last.run.outcomes)
        /\ \A i \in 1..Len(last.run.items) :
               last.run.outcomes[i].kind # "ok" =>
                   \A j \in 1..Len(incFile.data) : incFile.data[j].v.number # MaxBefore + i

\* C2: when all N >= 1 items of a batch enrich successfully, the increment
\* file holds N entries with pairwise distinct numbers, each greater than every
\* number main had at the start of the run.
C2_BatchNumbersDistinctAndNew ==
    (/\ Enriched
     /\ last.run.items # <<>>
     /\ \A i \in 1..Len(last.run.items) : last.run.outcomes[i].kind = "ok") =>
        /\ incFile.st = "ok"
        /\ Len(incFile.data) = Len(last.run.items)
        /\ \A i, j \in 1..Len(incFile.data) :
               i # j => incFile.data[i].v.number # incFile.data[j].v.number
        /\ \A i \in 1..Len(incFile.data) :
               /\ incFile.data[i].v.number # NoNumber
               /\ \A n \in ExistingNumbers(MainBefore) : incFile.data[i].v.number > n

C2_Witness ==
    /\ Enriched
    /\ Len(last.run.items) = 2
    /\ \A i \in 1..2 : last.run.outcomes[i].kind = "ok"
    /\ ExistingNumbers(MainBefore) # {}
    /\ Len(incFile.data) = 2

\* C3: with one populate command at a time, from a main collection whose
\* numbers are pairwise distinct, no two entries of main carry the same number.
C3_MainNumbersUnique ==
    \A i, j \in 1..Len(mainFile.data) :
        (i # j /\ mainFile.data[i].v.number # NoNumber) =>
            mainFile.data[i].v.number # mainFile.data[j].v.number

C3_Witness ==
    /\ last.cmd = "populate"
    /\ last.run.branch \in {"fold", "backfill"}
    /\ last.incBefore.st = "ok" /\ last.incBefore.data # <<>>
    /\ Cardinality(ExistingNumbers(mainFile.data)) >= 3
    /\ \E i \in 1..Len(last.awaitingBefore) : HasKey(mainFile.data, last.awaitingBefore[i].k)

\* C4: the fold decides per key of the increment: main keeps its entry when it
\* has the key with a bg_url set, otherwise the entry becomes the incremental
\* one; the entries of main under other keys are unchanged, and there are no
\* other keys.
C4_FoldPerKey ==
    fold.pc \in {"once", "twice"} =>
        /\ Keys(fold.once) = Keys(fold.main) \cup Keys(fold.inc)
        /\ \A key \in Keys(fold.inc) :
               IF key \in Keys(fold.main) /\ Lookup(fold.main, key).bg_url # NoFile
               THEN Lookup(fold.once, key) = Lookup(fold.main, key)
               ELSE Lookup(fold.once, key) = Lookup(fold.inc, key)
        /\ \A key \in Keys(fold.main) \ Keys(fold.inc) :
               Lookup(fold.once, key) = Lookup(fold.main, key)

\* Both cases of the decision on one increment: a key main wins, and a key
\* main has without bg_url that the increment overwrites with another record.
C4_Witness ==
    /\ fold.pc = "once"
    /\ \E key \in Keys(fold.inc) \cap Keys(fold.main) :
           /\ Lookup(fold.main, key).bg_url # NoFile
           /\ Lookup(fold.inc, key) # Lookup(fold.main, key)
    /\ \E key \in Keys(fold.inc) \cap Keys(fold.main) :
           /\ Lookup(fold.main, key).bg_url = NoFile
           /\ Lookup(fold.inc, key) # Lookup(fold.main, key)

\* C5: folding the same increment twice gives the main collection that
\* folding it once gives.
C5_FoldIdempotent == fold.pc = "twice" => fold.twice = fold.once

\* A second fold after a first one that changed main.
C5_Witness ==
    /\ fold.pc = "twice"
    /\ fold.once # fold.main
    /\ fold.inc # <<>>
    /\ \E key \in Keys(fold.inc) : MainWins(fold.main, key)

\* C6: a run whose backfill sets a bg_url returns right after it: it does not
\* read the pending file, makes no enrichment call, and populate writes
\* neither the pending file nor the increment file.
C6_BackfillReturns ==
    (last.cmd = "populate" /\ last.run.backfilled # {}) =>
        /\ last.run.branch = "backfill"
        /\ ~last.run.pendRead
        /\ last.run.chatCalls = 0
        /\ ~last.run.wrotePend /\ ~last.run.wroteInc
        /\ last.run.pendOut = last.pendBefore /\ pendFile = last.pendBefore
        /\ last.run.incOut = last.incBefore

\* A backfill with an empty increment file and stubs waiting in the pending file.
C6_Witness ==
    /\ last.cmd = "populate" /\ last.run.backfilled # {}
    /\ ~IncNonEmpty(last.incBefore)
    /\ LoadPending(last.pendBefore) # <<>>
    /\ \E i \in 1..Len(mainFile.data) : mainFile.data[i].v.bg_url # NoFile

\* C7: the main file an enrichment run writes has none of the entries the run
\* enriched, and after the next populate run each of them is in main, under
\* its key, with its number, filename and work.
C7_EnrichedSurfaceNextRun ==
    /\ Enriched => \A key \in Keys(last.run.newdata) : ~HasKey(mainFile.data, key)
    /\ last.cmd = "populate" =>
           \A i \in 1..Len(last.awaitingBefore) :
               LET key == last.awaitingBefore[i].k
                   e == last.awaitingBefore[i].v
               IN /\ HasKey(mainFile.data, key)
                  /\ Lookup(mainFile.data, key).number = e.number
                  /\ Lookup(mainFile.data, key).filename = e.filename
                  /\ Lookup(mainFile.data, key).work = e.work

\* The run after an enrichment run that enriched two items.
C7_Witness ==
    /\ last.cmd = "populate"
    /\ Len(last.awaitingBefore) = 2
    /\ \A i \in 1..2 : HasKey(mainFile.data, last.awaitingBefore[i].k)
    /\ \A i \in 1..2 : ~HasKey(MainBefore, last.awaitingBefore[i].k)

\* C8: every key of the main file before a populate command is a key of the
\* main file after it, whatever the state of the files.
C8_MainKeysKept ==
    last.cmd \in {"populate", "increment"} => Keys(MainBefore) \subseteq Keys(LoadMain(mainFile))

\* A run that folded a non-empty increment into a main that had entries.
C8_Witness ==
    /\ last.cmd = "populate"
    /\ Keys(MainBefore) # {}
    /\ IncNonEmpty(last.incBefore)
    /\ Keys(LoadMain(mainFile)) # Keys(MainBefore)

\* The records of every persisted file.
AllRecords ==
    {mainFile.data[i].v : i \in 1..Len(mainFile.data)}
        \cup {incFile.data[i].v : i \in 1..Len(incFile.data)}
        \cup {pendFile.data[i].ent : i \in {j \in 1..Len(pendFile.data) : ~pendFile.data[j].isStub}}

\* C9: from a collection with no bg_url set, a record has a bg_url only if a
\* probe of {base_url}/{filename} for it has returned success, and the bg_url
\* is that URL.
C9_BgUrlOnlyAfterProbe ==
    \A e \in AllRecords : e.bg_url # NoFile => (e.bg_url = e.filename /\ e.filename \in probed)

\* A record published by enrichment beside one whose probe failed.
C9_Witness ==
    /\ Enriched
    /\ \E i \in 1..Len(incFile.data) : incFile.data[i].v.bg_url # NoFile
    /\ \E i \in 1..Len(incFile.data) :
           incFile.data[i].v.bg_url = NoFile /\ incFile.data[i].v.filename \notin probed

\* C10: the item at 0-based offset i that enriches gets number
\* max(numbers of main, 0) + i + 1 whether or not earlier items failed, and
\* the number of a failed offset goes to no entry of the run.
C10_NumberIsMaxPlusOffset ==
    Enriched =>
        /\ Len(last.run.newdata) = Cardinality(ProcessedIndices(last.run.outcomes))
        /\ \A i \in 1..Len(last.run.items) :
               IF last.run.outcomes[i].kind = "ok"
               THEN \E j \in 1..Len(last.run.newdata) :
                        /\ last.run.newdata[j].v.number = MaxBefore + (i - 1) + 1
                        /\ last.run.newdata[j].v.work = last.run.outcomes[i].work
               ELSE \A j \in 1..Len(last.run.newdata) :
                        last.run.newdata[j].v.number # MaxBefore + (i - 1) + 1

\* A failed first item and an enriched second one, main holding numbers: a gap.
C10_Witness ==
    /\ Enriched
    /\ Len(last.run.items) = 2
    /\ last.run.outcomes[1].kind # "ok" /\ last.run.outcomes[2].kind = "ok"
    /\ MaxBefore > 0
    /\ \E j \in 1..Len(incFile.data) : incFile.data[j].v.number = MaxBefore + 2

\* The title of the last stub of the list that is stored under the key.
LastTitleUnder(paintings, key) ==
    ItemTitle(paintings[Max({i \in 1..Len(paintings) : NewKey(ItemTitle(paintings[i])) = key})])

\* C11: populate given a non-empty list of raw stubs returns main with each
\* stub under "new-<slug(name)>" holding only its title (the title of the last
\* stub of the list with that key), makes no probe and no enrichment call, and
\* neither reads nor writes the pending file.
C11_IngestOnly ==
    last.cmd = "call" =>
        /\ \A i \in 1..Len(job.paintings) :
               LET key == NewKey(ItemTitle(job.paintings[i]))
               IN /\ HasKey(last.run.completed, key)
                  /\ Lookup(last.run.completed, key) =
                         StubEntry(LastTitleUnder(job.paintings, key))
        /\ last.run.probes = {} /\ probed = {}
        /\ last.run.chatCalls = 0
        /\ ~last.run.pendRead /\ ~last.run.wrotePend
        /\ pendFile = last.pendBefore /\ incFile = last.incBefore

\* Two stubs with one slug, a main that has a backfill candidate and had the
\* key with another record, and stubs waiting in the pending file.
C11_Witness ==
    /\ last.cmd = "call"
    /\ Len(job.paintings) = 2
    /\ NewKey(ItemTitle(job.paintings[1])) = NewKey(ItemTitle(job.paintings[2]))
    /\ ItemTitle(job.paintings[1]) # ItemTitle(job.paintings[2])
    /\ BackfillKeys(last.run.completed) # {}
    /\ LoadPending(pendFile) # <<>>
    /\ HasKey(LoadMain(mainFile), NewKey("ab"))

\* C12: with no raw stubs, backfill probes {base_url}/{filename} for exactly
\* the records of main that have a filename and no bg_url, and sets bg_url to
\* that URL exactly for those whose probe succeeds; a record without filename
\* or with a bg_url is not probed and keeps its bg_url.
C12_BackfillProbesCandidates ==
    last.cmd = "populate" =>
        LET before == last.run.folded
            after == last.run.completed
            due == {k \in Keys(before) : /\ Lookup(before, k).filename # NoFile
                                         /\ Lookup(before, k).bg_url = NoFile}
        IN /\ last.run.backfillProbes = {Lookup(before, k).filename : k \in due}
           /\ Keys(after) = Keys(before)
           /\ \A k \in Keys(before) :
                  Lookup(after, k).bg_url =
                      IF k \in due /\ k \in last.run.found
                      THEN Lookup(before, k).filename
                      ELSE Lookup(before, k).bg_url

\* One run over a main that holds a record without filename, a record whose
\* probe succeeds and a record whose probe fails.
C12_Witness ==
    /\ last.cmd = "populate"
    /\ \E k1, k3, k4 \in Keys(last.run.folded) :
           /\ Lookup(last.run.folded, k1).filename = NoFile
           /\ Lookup(last.run.completed, k1).bg_url = NoFile
           /\ k3 \in last.run.found
           /\ Lookup(last.run.folded, k3).bg_url = NoFile
           /\ Lookup(last.run.completed, k3).bg_url = Lookup(last.run.folded, k3).filename
           /\ Lookup(last.run.folded, k4).filename # NoFile
           /\ k4 \notin last.run.found
           /\ Lookup(last.run.completed, k4).bg_url = NoFile

\* C13: during enrichment a failure on one item of any of the four kinds
\* (transport/HTTP failure of the call, non-JSON response envelope, empty
\* content, non-JSON content) is reported for that item only and does not end
\* the run: the batch is never aborted by one bad item.
C13_FailureDoesNotAbort ==
    (job.pc = "done" /\ job.source # <<>> /\ job.outcome.kind # "ok") =>
        /\ ~job.res.raised
        /\ job.res.attempted = Len(SliceTo(job.source, 1))
        /\ job.res.skipped = 1

\* The file read as the claims read it: an unparseable or absent file is an
\* empty one.
AsEmpty(f) == IF f.st = "ok" THEN f ELSE File(<<>>)

\* The dict populate returns for the run of the latest command when the three
\* files are read through AsEmpty.
ReadAsEmpty ==
    populate(AsEmpty(last.mainBefore), AsEmpty(last.incBefore), AsEmpty(last.pendBefore),
             <<>>, last.run.found, last.run.outcomes).completed

\* C14: when the main, pending or increment file exists but is not parseable
\* JSON, the non-increment populate command treats that file as empty and
\* completes without raising, the other files being processed normally.
C14_MalformedFileTolerated ==
    (/\ last.cmd = "populate"
     /\ last.incBefore.st # "absent"
     /\ "malformed" \in {last.mainBefore.st, last.incBefore.st, last.pendBefore.st}) =>
        /\ ~last.raised
        /\ last.run.completed = ReadAsEmpty
        /\ mainFile = File(last.run.completed)

\* C15: when the increment file does not exist at the start of a non-increment
\* populate command, it is read as an empty mapping and the run completes
\* normally: main is written and nothing is raised, also when the run
\* enriches no item.
C15_AbsentIncrementTolerated ==
    (last.cmd = "populate" /\ last.incBefore.st = "absent") =>
        /\ ~last.raised
        /\ last.run.completed = ReadAsEmpty
        /\ mainFile = File(last.run.completed)

\* C16: url_exists returns true exactly when the HEAD request, redirects
\* followed, ends with status 200; it returns false for every other status
\* and for every transport error or timeout, and never raises.
C16_TrueExactlyOn200 ==
    job.pc = "done" =>
        job.out = IF job.head.kind = "response" /\ job.head.status_code = 200
                  THEN "True" ELSE "False"

\* A probe that timed out has answered false.
C16_Witness ==
    /\ job.pc = "done"
    /\ job.head.kind = "raise" /\ job.head.exc = "ReadTimeout"
    /\ job.out = "False"

\* A title or author as the duplicate check is to compare it: lower-cased and
\* trimmed, a missing or null one being the empty string.
Compared(v) ==
    IF v \in {"Ab", " ab ", "ab"} THEN "ab"
    ELSE IF v \in {"cd", " CD"} THEN "cd"
    ELSE IF v \in {MissingText, NullText, ""} THEN ""
    ELSE v

\* The positions of the list that have an earlier position with the same pair.
Repeats(paintings) ==
    {i \in 1..Len(paintings) :
        \E j \in 1..(i - 1) :
            /\ Compared(paintings[j].title) = Compared(paintings[i].title)
            /\ Compared(paintings[j].author) = Compared(paintings[i].author)}

\* C19: the duplicate check reports an entry exactly when an earlier entry of
\* the list has the same (title, author) pair after lower-casing and trimming
\* both fields, whatever the numbers; the first of a group is never reported,
\* and a missing or null title or author counts as the empty string.
C19_ReportsLaterOfSamePair ==
    job.pc = "done" =>
        /\ ~job.raised
        /\ {job.duplicates[i] : i \in 1..Len(job.duplicates)} = Repeats(job.paintings)
        /\ Len(job.duplicates) = Cardinality(Repeats(job.paintings))

\* How many records of the main file carry the number n.
Sharers(n) ==
    Cardinality({i \in 1..Len(mainFile.data) : mainFile.data[i].v.number = n})

\* How many "Duplicated" findings name n.
DuplicatedFindings(n) ==
    Cardinality({i \in 1..Len(job.findings.duplicated) : job.findings.duplicated[i] = n})

\* C17: the errors pass reports "Duplicated" for a number n exactly when n is
\* assigned to more than one entry of main: k - 1 findings when k entries share
\* n (one finding for two), none for a number held by a single entry, and no
\* finding for anything that is no number of main.
C17_DuplicatedPerSharedNumber ==
    (job.pc = "done" /\ job.by = "main" /\ ~job.raised) =>
        /\ \A n \in 1..(MaxEntries + 1) :
               DuplicatedFindings(n) = IF Sharers(n) > 1 THEN Sharers(n) - 1 ELSE 0
        /\ \A i \in 1..Len(job.findings.duplicated) :
               job.findings.duplicated[i] \in 1..(MaxEntries + 1)

\* Three entries share one number, and the pass has reported it twice.
C17_Witness ==
    /\ job.pc = "done" /\ job.by = "main" /\ ~job.raised
    /\ \E n \in 1..(MaxEntries + 1) : Sharers(n) = 3 /\ DuplicatedFindings(n) = 2

\* The numbers assigned to the entries of main.
NumbersOfMain ==
    {mainFile.data[i].v.number : i \in 1..Len(mainFile.data)} \ {NoNumber}

\* C18: the errors pass reports "Missing painting: m" exactly for the integers
\* m in 1..max(numbers of main) that are assigned to no entry, and no other m.
C18_MissingUpToMax ==
    (job.pc = "done" /\ job.by = "main" /\ ~job.raised) =>
        job.findings.missing =
            {m \in 1..MaxOrZero(NumbersOfMain) : m \notin NumbersOfMain}

\* C20: the errors pass only reports: it changes neither the main file nor
\* any other persisted file or image file, whatever its findings.
C20_ErrorsPassChangesNothing ==
    job.pc = "done" =>
        /\ mainFile = last.mainBefore
        /\ incFile = last.incBefore /\ pendFile = last.pendBefore
        /\ paintingsFile = last.paintingsBefore
        /\ job.images = job.imagesBefore

\* C21: the upload command only ever hands to the TV client the bytes of an
\* entry of main that has a non-null bg_url; when main has no entry with a
\* bg_url, or the main file is missing, or the download fails, nothing is sent
\* and the process exits with code 1.
C21_UploadsOnlyPublished ==
    job.pc = "done" =>
        /\ job.sent.any =>
               /\ mainFile.st = "ok"
               /\ \E i \in 1..Len(mainFile.data) :
                      /\ mainFile.data[i].v = job.sent.entry
                      /\ mainFile.data[i].v.bg_url # NoFile
        /\ (\/ mainFile.st # "ok"
            \/ \A i \in 1..Len(mainFile.data) : mainFile.data[i].v.bg_url = NoFile
            \/ job.download # "ok") =>
               (~job.sent.any /\ job.exit = 1)

\* The settings each command requires, by the error messages of main.py.
Needs(command) ==
    IF command = "upload" THEN {"ip", "token", "populated_json"}
    ELSE IF command = "generate" THEN {"paintings_json", "images_dir", "base_url"}
    ELSE IF command = "populate" THEN {"paintings_json", "populated_json", "base_url"}
    ELSE {"populated_json"}

\* C22: for each of upload, generate, populate and errors, when a setting the
\* command requires is given neither on the command line nor in the
\* environment, the process exits with code 1 before it reads or writes a
\* state file, makes a network call or contacts the TV.
C22_MissingSettingExitsFirst ==
    (job.pc = "done" /\ \E name \in Needs(job.command) : job.given[name] = "nowhere") =>
        (job.exit = 1 /\ job.touched = {})

\* An upload with the IP on the command line, the file in the environment and
\* no token has exited with code 1.
C22_Witness ==
    /\ job.pc = "done" /\ job.command = "upload"
    /\ job.given["ip"] = "args" /\ job.given["populated_json"] = "env"
    /\ job.given["token"] = "nowhere"
    /\ job.exit = 1 /\ job.touched = {}

\* C23: the filename of an enriched entry is
\* "<number>-<slug(author)>-<slug(title)>.jpg" whose segment before the first
\* hyphen is the number zero-padded to exactly 4 digits, for every positive
\* number.
C23_FourDigitSegment ==
    job.pc = "done" =>
        /\ job.out.kind = "file"
        /\ Len(job.out.num) = 4
        /\ IntOf(job.out.num) = job.number
        /\ job.out.slug = slugify(job.work)

\* C23, amended: the segment before the first hyphen is the decimal number
\* padded with zeros on the left to at least 4 digits: exactly 4 digits for a
\* number below 10000, all the digits of the number from 10000 on.
C23_PaddedToAtLeastFour ==
    job.pc = "done" =>
        /\ job.out.kind = "file"
        /\ Len(job.out.num) = (IF job.number < 10000 THEN 4 ELSE Len(Digits(job.number)))
        /\ IntOf(job.out.num) = job.number
        /\ \A i \in 1..Len(job.out.num) : job.out.num[i] \in 0..9
        /\ job.out.slug = slugify(job.work)

\* The filename of number 10000 starts with five digits.
C23_Witness ==
    /\ job.pc = "done" /\ job.number = 10000
    /\ job.out.num = <<1, 0, 0, 0, 0>>

\* The name ends with a dot and one of the given pieces, after a stem.
EndsWithDot(name, ends) ==
    /\ Len(name) >= 3
    /\ name[Len(name) - 1] = "."
    /\ name[Len(name)] \in ends

\* What the claim gives for a name that is accepted: the same directory, the
\* name with its last two pieces replaced by .incremental.<kind>.json.
Replaced ==
    [raised |-> FALSE, dir |-> job.dir,
     name |-> SubSeq(job.name, 1, Len(job.name) - 2)
                  \o <<".", "incremental", ".", job.kind, ".", "json">>]

\* C24: for a path whose suffix is .json, the two functions return the same
\* path with the trailing .json replaced by .incremental.pending.json and
\* .incremental.completed.json; for a path whose suffix is not .json both
\* raise ValueError.
C24_JsonSuffixOnly ==
    job.pc = "done" =>
        IF EndsWithDot(job.name, {"json"}) THEN job.out = Replaced ELSE job.out.raised

\* C24, amended: the suffix is compared without regard to letter case, so a
\* path ending in .JSON is accepted too and its suffix is replaced alike; any
\* other path raises ValueError.
C24_JsonSuffixAnyCase ==
    job.pc = "done" =>
        IF EndsWithDot(job.name, {"json", "JSON"}) THEN job.out = Replaced ELSE job.out.raised

\* /tmp/data/test.JSON has given /tmp/data/test.incremental.pending.json.
C24_Witness ==
    /\ job.pc = "done" /\ job.kind = "pending"
    /\ job.dir = <<"tmp", "data">> /\ job.name = <<"test", ".", "JSON">>
    /\ ~job.out.raised
    /\ job.out.name = <<"test", ".", "incremental", ".", "pending", ".", "json">>

\* C25: Config() has every field None when no matching environment variable
\* is set, takes ip and token from THEFRAME_IP and THEFRAME_TOKEN, and takes
\* source_json from the environment variable SOURCE_JSON.
C25_ConfigFromEnvironment ==
    job.pc = "done" =>
        /\ (\A v \in EnvNames : job.env[v] = NotSet) =>
               \A f \in Fields : job.config[f] = NotSet
        /\ job.config["ip"] = job.env["THEFRAME_IP"]
        /\ job.config["token"] = job.env["THEFRAME_TOKEN"]
        /\ job.config["source_json"] = job.env["SOURCE_JSON"]

\* C26: under repeated populate runs no stub leaves the pending file without
\* having produced an entry in the completed-increment file (so that a stub
\* whose enrichment eventually succeeds eventually gets into main): after a run
\* that reached the enrichment branch every stub of the batch is still in the
\* pending file or has its entry, under its new number, in the increment file.
C26_NoStubLeavesUnenriched ==
    Enriched =>
        \A i \in 1..Len(last.run.items) :
            \/ \E j \in 1..Len(LoadPending(pendFile)) :
                   LoadPending(pendFile)[j] = last.run.items[i]
            \/ /\ last.run.outcomes[i].kind = "ok"
               /\ incFile.st = "ok"
               /\ \E j \in 1..Len(incFile.data) :
                      incFile.data[j].v.number = MaxBefore + i

\* Two different entries of the main and the increment file carry the same
\* sequence number.
SameNumberTwice ==
    LET all == LoadMain(mainFile) \o LoadMain(incFile)
    IN \E i, j \in 1..Len(all) :
           /\ all[i].k # all[j].k
           /\ all[i].v.number # NoNumber
           /\ all[i].v.number = all[j].v.number

\* An entry some run dumped to the increment file is in neither the increment
\* file nor the main file, now or after an earlier command.
EntryLost ==
    \/ \E k \in job.emitted : ~HasKey(LoadMain(mainFile), k) /\ ~HasKey(LoadMain(incFile), k)
    \/ job.lostOnce

\* C27: as long as no populate run has started while another one was running,
\* no two different entries carry the same sequence number and no entry
\* written to the completed-increment file is lost; once two runs have
\* overlapped both states are reachable (the witness).
C27_OneRunAtATimeIsSafe ==
    ~job.overlapped => (~SameNumberTwice /\ ~EntryLost)

C27_Witness ==
    job.overlapped /\ SameNumberTwice /\ EntryLost

\* The int numbers of the entries of the main and the increment file a command
\* started from.
NumbersBefore ==
    ExistingNumbers(LoadMain(last.mainBefore)) \cup ExistingNumbers(LoadMain(last.incBefore))

\* C28: a populate run that loads a non-empty completed-increment file returns
\* after folding and backfill: it does not read the pending file, makes no
\* enrichment call, writes neither the pending nor the increment file from
\* populate, and assigns no number, whether or not a bg_url was backfilled.
C28_NonEmptyIncrementSkipsEnrichment ==
    (last.cmd = "populate" /\ IncNonEmpty(last.incBefore)) =>
        /\ last.run.branch \in {"fold", "backfill"}
        /\ ~last.run.pendRead
        /\ last.run.chatCalls = 0
        /\ last.run.newdata = <<>>
        /\ ~last.run.wrotePend /\ ~last.run.wroteInc
        /\ pendFile = last.pendBefore
        /\ ExistingNumbers(LoadMain(mainFile)) \cup ExistingNumbers(LoadMain(incFile))
               \subseteq NumbersBefore

\* Such a run with stubs waiting in the pending file and no bg_url backfilled.
C28_Witness ==
    /\ last.cmd = "populate" /\ IncNonEmpty(last.incBefore)
    /\ last.run.branch = "fold"
    /\ last.run.backfilled = {}
    /\ LoadPending(last.pendBefore) # <<>>

\* C29: after a populate command without --increment that completes, no key is
\* in both the main file and the completed-increment file: the entries of the
\* increment file the run loaded are all in main and gone from the increment
\* file, and the entries enriched in that run are all in the increment file.
C29_MainAndIncrementDisjoint ==
    (last.cmd = "populate" /\ ~last.raised) =>
        /\ Keys(LoadMain(mainFile)) \cap Keys(LoadMain(incFile)) = {}
        /\ \A k \in Keys(LoadMain(last.incBefore)) :
               HasKey(LoadMain(mainFile), k) /\ ~HasKey(LoadMain(incFile), k)
        /\ (last.run.wroteInc => LoadMain(incFile) = last.run.newdata)

\* A completed run that folded the entries of the increment file into a main
\* file that already held entries, and left the increment file empty.
C29_Witness ==
    /\ last.cmd = "populate" /\ ~last.raised
    /\ IncNonEmpty(last.incBefore)
    /\ LoadMain(last.mainBefore) # <<>>
    /\ Len(LoadMain(mainFile)) > Len(LoadMain(last.mainBefore))
    /\ incFile = File(<<>>)

\* How many times x occurs in the list s.
Occurrences(x, s) == Cardinality({i \in 1..Len(s) : s[i] = x})

\* The paintings list a command started from.
PaintingsBefore == LoadMain(last.paintingsBefore)

\* C30: after "populate --increment" the pending file holds the first
\* min(2, n) stubs of the paintings file in order, the paintings file holds
\* exactly the remaining stubs in order, and every stub that was in the
\* paintings file or the pending file before the command is in exactly one of
\* the two files after it (each occurrence once).
C30_IncrementMovesStubs ==
    (last.cmd = "increment" /\ ~last.raised) =>
        /\ LoadPending(pendFile) = SliceTo(PaintingsBefore, BatchSize)
        /\ LoadMain(paintingsFile) = SliceFrom(PaintingsBefore, BatchSize)
        /\ \A i \in 1..Len(PaintingsBefore \o LoadPending(last.pendBefore)) :
               LET x == (PaintingsBefore \o LoadPending(last.pendBefore))[i]
               IN Occurrences(x, LoadPending(pendFile)) + Occurrences(x, LoadMain(paintingsFile))
                      = Occurrences(x, PaintingsBefore)
                            + Occurrences(x, LoadPending(last.pendBefore))

====
